---- MODULE Spec2Model ----
(***************************************************************************)
(* Route-graph acquisition and path selection of connecting_flights_finder *)
(* (airports.py, airports_fixed.py, airports_enhanced.py).                 *)
(*                                                                         *)
(* Each program populates a directed graph G of airports (a networkx       *)
(* DiGraph) with at most one edge per ordered pair, then answers           *)
(* origin/destination queries with a planner in an interactive loop.       *)
(*                                                                         *)
(* Prices are integers (the synthetic providers draw integers), so every   *)
(* comparison the planners make is exact: x <= y * 1.3 is 10*x <= 13*y.    *)
(* airports.py and airports_fixed.py store the price under the attribute   *)
(* 'weight' and airports_enhanced.py under 'price'; each program reads the *)
(* attribute it wrote, and the model calls it price.                       *)
(***************************************************************************)
EXTENDS Integers, Sequences, FiniteSets, TLC

VARIABLES
    program,    \* which of the three programs this process runs
    nodes,      \* G.nodes: the IATA codes added to the graph
    edges,      \* G.edges: function from ordered pairs <<o, d>> to the edge's attributes
    adj,        \* G.adj: for each node its successors, in insertion order
    run,        \* the populate function in progress, or "idle"
    runs,       \* populate runs started so far in this process
    work,       \* the (origin, destination) pairs the run has still to attempt
    lookups,    \* live lookups issued so far for Head(work), each answered 429
    denied,     \* the live source answered 403 to a lookup of this run
    phase,      \* position of the interactive loop: "ready" (at the prompt) or "answered"
    result,     \* what the last query produced (planner return value / what main printed)
    rng,        \* the state of the random module: the seed and the draws made since
    today,      \* the calendar day datetime.now() shows
    first,      \* the graph an earlier process built, kept for comparison
    lookup,     \* the last direct call of a quote provider: its input and its return
    frame       \* the locals of populate_graph_with_real_data while it runs

graphVars == <<nodes, edges, adj>>
runVars == <<run, runs, work, lookups, denied>>
queryVars == <<phase, result>>
seedVars == <<rng, today, first>>
vars == <<program, nodes, edges, adj, run, runs, work, lookups, denied, phase, result,
          rng, today, first, lookup, frame>>

----------------------------------------------------------------------------
(* Inputs of the model *)

\* The airport catalog of the spec's scenarios (section 8: A, B, C), in the
\* order of the dataset.
Airports == {"A", "B", "C"}
AirportList == <<"A", "B", "C">>

\* A code the user can type that is not in the catalog.
Unknown == "Z"

\* A six-airport catalog, for itineraries of up to five legs.
LongAirports == {"A", "B", "C", "D", "E", "F"}
LongAirportList == <<"A", "B", "C", "D", "E", "F">>

\* The fares of the model. With two legs of FareLow, FareMid is exactly 1.30
\* times the connecting price and FareHigh is above it (the spec's scenario
\* uses 100 + 100 against 250 and 400).
FareLow == 100
FareMid == 260
FareHigh == 400
Fares == {FareLow, FareMid, FareHigh}

\* float('inf'): larger than every sum of fares the model can form.
Infinity == 1000000

\* Python's None for a path.
NonePath == <<>>

\* The programs.
Programs == {"airports", "fixed", "enhanced"}

----------------------------------------------------------------------------
(* The graph (networkx.DiGraph as the programs use it) *)

Graph == [nodes |-> nodes, edges |-> edges, adj |-> adj]

HasEdge(G, u, v) == <<u, v>> \in DOMAIN G.edges

Price(G, u, v) == G.edges[<<u, v>>].price

\* G[v] as the planner iterates it: the successors of v in insertion order.
Successors(G, v) == G.adj[v]

\* The elements of a sequence.
Range(s) == {s[i] : i \in DOMAIN s}

\* A dict that keeps the values it has and only gains new keys.
KeepOld(old, new) == old @@ new

\* An update that writes the price and leaves the other keys for later.
PriceFirst(old, new) == [price |-> new.price] @@ old

\* dict.update: the keys of new replace those of old, the others stay.
Update(old, new) == new @@ old

\* G.add_edge(o, d, **attrs): both endpoints become nodes, the pair's
\* attribute dict is created or updated, a new successor goes last.
AddEdge(G, o, d, attrs) ==
    [nodes |-> G.nodes \cup {o, d},
     edges |-> IF HasEdge(G, o, d)
               THEN [G.edges EXCEPT ![<<o, d>>] = Update(@, attrs)]
               ELSE (<<o, d>> :> attrs) @@ G.edges,
     adj |-> [n \in G.nodes \cup {o, d} |->
                 IF n = o
                 THEN IF n \in G.nodes
                      THEN IF d \in Range(G.adj[n]) THEN G.adj[n] ELSE Append(G.adj[n], d)
                      ELSE <<d>>
                 ELSE IF n \in G.nodes THEN G.adj[n] ELSE <<>>]]

\* The empty graph main builds: one node per catalog entry, no edge.
EmptyGraph(S) == [nodes |-> S, edges |-> <<>>, adj |-> [n \in S |-> <<>>]]

----------------------------------------------------------------------------
(* networkx: has_path, dijkstra_path, dijkstra_path_length *)

\* Breadth-first closure of a set of nodes under the edge relation.
RECURSIVE ReachFrom(_, _)
ReachFrom(G, seen) ==
    LET next == seen \cup {v \in G.nodes : \E u \in seen : HasEdge(G, u, v)}
    IN IF next = seen THEN seen ELSE ReachFrom(G, next)

\* nx.has_path(G, s, t) raises NodeNotFound when s or t is not a node of G
\* (it catches NetworkXNoPath only).
NodeMissing(G, s, t) == s \notin G.nodes \/ t \notin G.nodes

\* nx.has_path(G, s, t) for nodes s, t of G.
HasPath(G, s, t) == t \in ReachFrom(G, {s})

\* A weight function that misses the attribute: data.get(weight, 1) counts
\* every edge as 1.
UnitWeight(G, v, u) == 1

\* The weight function networkx builds from weight='weight' / weight='price':
\* the edge attribute of that name, which is the price the program stored.
Weight(G, v, u) == Price(G, v, u)

\* A queue instead of a heap: the entry pushed first.
PopOldest(fringe) == CHOOSE e \in fringe : \A f \in fringe : e[2] <= f[2]

\* heappop on the fringe of (distance, insertion count, node) entries.
PopMin(fringe) ==
    CHOOSE e \in fringe :
        \A f \in fringe : e[1] < f[1] \/ (e[1] = f[1] /\ e[2] <= f[2])

\* The inner loop of _dijkstra_multisource: relax the edges v -> u. (Its
\* "Contradictory paths" ValueError needs a settled u with a larger distance,
\* which no graph of positive prices has.)
RECURSIVE Relax(_, _, _, _)
Relax(G, v, succs, st) ==
    IF succs = <<>> THEN st
    ELSE LET u == Head(succs)
             vu_dist == st.dist[v] + Weight(G, v, u)
         IN IF u \in st.done
            THEN Relax(G, v, Tail(succs), st)
            ELSE IF st.seen[u] = Infinity \/ vu_dist < st.seen[u]
                 THEN Relax(G, v, Tail(succs),
                            [st EXCEPT !.seen[u] = vu_dist,
                                       !.fringe = @ \cup {<<vu_dist, st.c, u>>},
                                       !.c = @ + 1,
                                       !.paths[u] = Append(st.paths[v], u)])
                 ELSE Relax(G, v, Tail(succs), st)

\* The outer loop of _dijkstra_multisource, stopping at the target.
RECURSIVE DijkstraLoop(_, _, _)
DijkstraLoop(G, target, st) ==
    IF st.fringe = {} THEN st
    ELSE LET e == PopMin(st.fringe)
             v == e[3]
             popped == [st EXCEPT !.fringe = @ \ {e}]
         IN IF v \in st.done
            THEN DijkstraLoop(G, target, popped)
            ELSE LET settled == [popped EXCEPT !.done = @ \cup {v}, !.dist[v] = e[1]]
                 IN IF v = target THEN settled
                    ELSE DijkstraLoop(G, target, Relax(G, v, Successors(G, v), settled))

\* single_source_dijkstra(G, source, target, weight) for a node source:
\* found = FALSE stands for NetworkXNoPath.
Dijkstra(G, source, target) ==
    LET st0 == [done |-> {},
                dist |-> [n \in G.nodes |-> Infinity],
                seen |-> [n \in G.nodes |-> IF n = source THEN 0 ELSE Infinity],
                paths |-> [n \in G.nodes |-> IF n = source THEN <<source>> ELSE <<>>],
                fringe |-> {<<0, 0, source>>},
                c |-> 1]
        st == DijkstraLoop(G, target, st0)
    IN [found |-> target \in st.done,
        path |-> IF target \in st.done THEN st.paths[target] ELSE NonePath,
        cost |-> IF target \in st.done THEN st.dist[target] ELSE Infinity]

----------------------------------------------------------------------------
(* The planners *)

\* What a planner call produces: a returned (path, cost) pair, or an
\* exception that leaves the function.
Returned(path, cost) == [exc |-> "none", path |-> path, cost |-> cost]
\* A "no route" value whose cost is 0 instead of float('inf').
ZeroCostNoRoute == Returned(NonePath, 0)

\* return None, float('inf')
NoRoute == Returned(NonePath, Infinity)
Raised(e) == [exc |-> e, path |-> NonePath, cost |-> Infinity]

\* A planner that takes the direct flight whenever there is one.
DirectFirst(G, source, target) ==
    IF NodeMissing(G, source, target) THEN Raised("NodeNotFound")
    ELSE IF HasEdge(G, source, target)
         THEN Returned(<<source, target>>, Price(G, source, target))
         ELSE LET d == Dijkstra(G, source, target)
              IN IF d.found THEN Returned(d.path, d.cost) ELSE NoRoute

\* airports.py: find_cheapest_path.
find_cheapest_path(G, source, target) ==
    IF NodeMissing(G, source, target) THEN Raised("NodeNotFound")
    ELSE IF ~HasPath(G, source, target) THEN NoRoute
    ELSE LET d == Dijkstra(G, source, target)
         IN IF d.found THEN Returned(d.path, d.cost) ELSE NoRoute

\* The tolerance test with a strict comparison.
PreferDirectStrict(shortest_path, direct_cost, shortest_cost) ==
    Len(shortest_path) > 2 /\ 10 * direct_cost < 13 * shortest_cost

\* The tolerance test without the price comparison.
PreferDirectAlways(shortest_path, direct_cost, shortest_cost) ==
    Len(shortest_path) > 2

\* The tolerance test with a tolerance of 100%.
PreferDirectLoose(shortest_path, direct_cost, shortest_cost) ==
    Len(shortest_path) > 2 /\ direct_cost <= 2 * shortest_cost

\* The 30% tolerance test of find_shortest_path_with_preference:
\* len(shortest_path) > 2 and direct_cost <= shortest_cost * 1.3.
PreferDirect(shortest_path, direct_cost, shortest_cost) ==
    Len(shortest_path) > 2 /\ 10 * direct_cost <= 13 * shortest_cost

\* airports_fixed.py: find_shortest_path_with_preference up to its tolerance
\* test: either the call is decided without the test, or the test is put to
\* the direct edge's price and the shortest path and its cost.
PreferenceCase(G, source, target) ==
    IF NodeMissing(G, source, target)
    THEN [decided |-> TRUE, result |-> Raised("NodeNotFound")]
    ELSE IF ~HasPath(G, source, target) THEN [decided |-> TRUE, result |-> NoRoute]
    ELSE IF HasEdge(G, source, target)
         THEN LET direct_cost == Price(G, source, target)
                  direct_path == <<source, target>>
                  d == Dijkstra(G, source, target)
              IN IF ~d.found
                 THEN [decided |-> TRUE, result |-> Returned(direct_path, direct_cost)]
                 ELSE [decided |-> FALSE, direct_path |-> direct_path,
                       direct_cost |-> direct_cost,
                       shortest_path |-> d.path, shortest_cost |-> d.cost]
         ELSE LET d == Dijkstra(G, source, target)
              IN [decided |-> TRUE,
                  result |-> IF d.found THEN Returned(d.path, d.cost) ELSE NoRoute]

\* airports_fixed.py: find_shortest_path_with_preference.
find_shortest_path_with_preference(G, source, target) ==
    LET c == PreferenceCase(G, source, target)
    IN IF c.decided THEN c.result
       ELSE IF PreferDirect(c.shortest_path, c.direct_cost, c.shortest_cost)
            THEN Returned(c.direct_path, c.direct_cost)
            ELSE Returned(c.shortest_path, c.shortest_cost)

\* A route finder that looks for the cheapest path only.
CheapestRegardless(G, origin, destination) ==
    IF origin \notin G.nodes \/ destination \notin G.nodes THEN NoRoute
    ELSE IF ~HasPath(G, origin, destination) THEN NoRoute
         ELSE LET d == Dijkstra(G, origin, destination)
              IN IF d.found THEN Returned(d.path, d.cost) ELSE NoRoute

\* airports_enhanced.py: find_optimal_route (path and total cost; the
\* route_details list is the edges of the path).
find_optimal_route(G, origin, destination) ==
    IF origin \notin G.nodes \/ destination \notin G.nodes THEN NoRoute
    ELSE IF HasEdge(G, origin, destination)
         THEN Returned(<<origin, destination>>, Price(G, origin, destination))
         ELSE IF ~HasPath(G, origin, destination) THEN NoRoute
              ELSE LET d == Dijkstra(G, origin, destination)
                   IN IF d.found THEN Returned(d.path, d.cost) ELSE NoRoute

\* The planner each program's main loop calls.
Planner(prog, G, o, d) ==
    CASE prog = "airports" -> find_cheapest_path(G, o, d)
      [] prog = "fixed" -> find_shortest_path_with_preference(G, o, d)
      [] prog = "enhanced" -> find_optimal_route(G, o, d)

----------------------------------------------------------------------------
(* The interactive loops (main) and direct calls of the planner functions *)

\* The random module as the interpreter seeds it, the day the process
\* starts, and no earlier graph.
NoSnapshot == [none |-> TRUE]
Unseeded ==
    /\ rng = [seed |-> 0, n |-> 0]
    /\ today = 0
    /\ first = NoSnapshot

\* No direct call of the live lookup has been made.
NoLookup == [none |-> TRUE]

\* populate_graph_with_real_data is not running.
NoFrame == [none |-> TRUE]

NoResult ==
    [layer |-> "none", program |-> "none", origin |-> "", destination |-> "",
     kind |-> "none", path |-> NonePath, cost |-> 0, stops |-> 0]

\* The outcome of calling a program's planner function directly: it raised,
\* it returned (None, inf), or it returned a path and its cost.
PlannerResult(prog, o, d, r) ==
    [layer |-> "planner", program |-> prog, origin |-> o, destination |-> d,
     kind |-> IF r.exc # "none" THEN "raised"
              ELSE IF r.path = NonePath THEN "noroute" ELSE "itinerary",
     path |-> r.path, cost |-> r.cost, stops |-> 0]

\* What one turn of a main loop prints: a rejection of the input
\* ("invalid"), the "An error occurred" line of its except clause, "no
\* route", or a route with its total cost and len(path) - 2 stops.
Shown(prog, o, d, kind, path, cost) ==
    [layer |-> "main", program |-> prog, origin |-> o, destination |-> d,
     kind |-> kind, path |-> path, cost |-> cost,
     stops |-> IF kind = "itinerary" THEN Len(path) - 2 ELSE 0]

\* "if path is None or cost == float('inf')" (display_route_details:
\* "if not path"), else the route.
Display(prog, o, d, r) ==
    IF r.exc # "none" THEN Shown(prog, o, d, "error", NonePath, Infinity)
    ELSE IF r.path = NonePath \/ r.cost = Infinity
         THEN Shown(prog, o, d, "noroute", NonePath, Infinity)
         ELSE Shown(prog, o, d, "itinerary", r.path, r.cost)

Rejected(prog, o, d) == Shown(prog, o, d, "invalid", NonePath, Infinity)

\* airports.py main, one turn of the loop: the catalog check, then
\* find_cheapest_path. (Every catalog entry is a node of G.)
airports_main_turn(G, o, d) ==
    IF o \notin G.nodes \/ d \notin G.nodes THEN Rejected("airports", o, d)
    ELSE Display("airports", o, d, find_cheapest_path(G, o, d))

\* airports_fixed.py main, one turn of the loop.
fixed_main_turn(G, o, d) ==
    IF o \notin G.nodes \/ d \notin G.nodes THEN Rejected("fixed", o, d)
    ELSE IF o = d THEN Rejected("fixed", o, d)
    ELSE Display("fixed", o, d, find_shortest_path_with_preference(G, o, d))

\* airports_enhanced.py main, one turn of the loop.
enhanced_main_turn(G, o, d) ==
    IF o \notin G.nodes THEN Rejected("enhanced", o, d)
    ELSE IF d \notin G.nodes THEN Rejected("enhanced", o, d)
    ELSE IF o = d THEN Rejected("enhanced", o, d)
    ELSE Display("enhanced", o, d, find_optimal_route(G, o, d))

\* The codes a caller can pass: the graph's nodes and one that is not.
Codes == nodes \cup {Unknown}

\* A planner call that makes nodes of the codes it is asked about.
PlanRouteAddingNodes(o, d) ==
    /\ run = "idle"
    /\ phase = "ready"
    /\ phase' = "answered"
    /\ result' = PlannerResult(program, o, d, Planner(program, Graph, o, d))
    /\ nodes' = nodes \cup {o, d}
    /\ adj' = [n \in nodes \cup {o, d} |-> IF n \in nodes THEN adj[n] ELSE <<>>]
    /\ UNCHANGED <<lookup, frame, rng, today, first, program, edges, run, runs, work, lookups, denied>>

\* The program's planner function is called with (G, o, d).
PlanRoute(o, d) ==
    /\ run = "idle"
    /\ phase = "ready"
    /\ phase' = "answered"
    /\ result' = PlannerResult(program, o, d, Planner(program, Graph, o, d))
    /\ UNCHANGED <<lookup, frame, rng, today, first, program, nodes, edges, adj, run, runs, work, lookups, denied>>

MainAirports(o, d) ==
    /\ program = "airports"
    /\ run = "idle"
    /\ phase = "ready"
    /\ phase' = "answered"
    /\ result' = airports_main_turn(Graph, o, d)
    /\ UNCHANGED <<lookup, frame, rng, today, first, program, nodes, edges, adj, run, runs, work, lookups, denied>>

MainFixed(o, d) ==
    /\ program = "fixed"
    /\ run = "idle"
    /\ phase = "ready"
    /\ phase' = "answered"
    /\ result' = fixed_main_turn(Graph, o, d)
    /\ UNCHANGED <<lookup, frame, rng, today, first, program, nodes, edges, adj, run, runs, work, lookups, denied>>

MainEnhanced(o, d) ==
    /\ program = "enhanced"
    /\ run = "idle"
    /\ phase = "ready"
    /\ phase' = "answered"
    /\ result' = enhanced_main_turn(Graph, o, d)
    /\ UNCHANGED <<lookup, frame, rng, today, first, program, nodes, edges, adj, run, runs, work, lookups, denied>>

\* The loop returns to its prompt.
NextPrompt ==
    /\ phase = "answered"
    /\ phase' = "ready"
    /\ result' = NoResult
    /\ UNCHANGED <<lookup, frame, rng, today, first, program, nodes, edges, adj, run, runs, work, lookups, denied>>

Query ==
    \E o \in Codes, d \in Codes :
        \/ PlanRoute(o, d)
        \/ MainAirports(o, d)
        \/ MainFixed(o, d)
        \/ MainEnhanced(o, d)

----------------------------------------------------------------------------
(* Quotes and the quote providers *)

\* HTTP statuses the lookups tell apart; OtherStatus stands for every other
\* non-success status, TransportFailure for a request that raises instead
\* of answering (caught by the lookup's except clause).
StatusOK == 200
StatusForbidden == 403
StatusRateLimited == 429
OtherStatus == 500
TransportFailure == 0

\* The source accepts the request and never answers it.
NoAnswer == 1

\* Python's None for a quote.
NoQuote == [none |-> TRUE]
IsNone(q) == "none" \in DOMAIN q

\* An arrival that drops the hour the minutes carry.
ArrivalNoCarry(dep_hour, dep_minute, duration_hours, duration_minutes) ==
    <<(dep_hour + duration_hours) % 24, (dep_minute + duration_minutes) % 60>>

\* A time of day f"{h:02d}:{m:02d}", kept as its two numbers.
ArrivalTime(dep_hour, dep_minute, duration_hours, duration_minutes) ==
    <<(dep_hour + duration_hours + (dep_minute + duration_minutes) \div 60) % 24,
      (dep_minute + duration_minutes) % 60>>

\* The flight_info dict a live lookup builds from an offer it keeps: the
\* defaults, overwritten by the details the offer carries ("full": an
\* airline, a departure at 22:45, an arrival, a duration of 1h30, no stop,
\* an aircraft).
LiveQuote(prog, price, offer) ==
    LET full == offer.details = "full"
        q == [price |-> price, airline |-> offer.airline, date |-> "d7",
              departure_time |-> IF full THEN <<22, 45>> ELSE "Unknown",
              arrival_time |-> IF full THEN ArrivalTime(22, 45, 1, 30) ELSE "Unknown",
              duration |-> IF full THEN <<1, 30>> ELSE "Unknown", stops |-> 0]
    IN IF prog = "enhanced"
       THEN [aircraft |-> IF full THEN "Boeing 737" ELSE "Unknown"] @@ q
       ELSE q

\* The dict a synthetic generator returns for its random draws; the airline
\* is random.choice of a list of carriers (kept: "Lufthansa").
MockQuote(prog, price, dep, dur, stops) ==
    LET q == [price |-> price, airline |-> "Lufthansa", date |-> "d7",
              departure_time |-> dep,
              arrival_time |-> ArrivalTime(dep[1], dep[2], dur[1], dur[2]),
              duration |-> dur, stops |-> stops]
    IN IF prog = "enhanced" THEN [aircraft |-> "Boeing 737"] @@ q ELSE q

\* The price a lookup extracts from one offer: a number, None ("none"), or
\* a ValueError/TypeError of float() ("error"). An offer's shape says where
\* its price is: price.amount, a numeric price, a price given as text, a
\* price dict without amount, totalPrice, cost, an unparseable amount, or
\* nowhere.
Parsed(kind, amount) == [kind |-> kind, amount |-> amount]

\* airports.py get_flight_details_requests / airports_fixed.py
\* get_detailed_flight_info: the price extraction.
ParsePrice(offer) ==
    CASE offer.shape \in {"amount", "flat", "totalPrice", "cost"} -> Parsed("number", offer.amount)
      [] offer.shape \in {"text", "noamount", "missing"} -> Parsed("none", 0)
      [] offer.shape = "garbage" -> Parsed("error", 0)

\* airports_enhanced.py get_detailed_flight_info: the price extraction.
ParsePriceEnhanced(offer) ==
    CASE offer.shape \in {"amount", "flat", "text", "totalPrice", "cost"} -> Parsed("number", offer.amount)
      [] offer.shape = "noamount" -> Parsed("number", 0)
      [] offer.shape = "missing" -> Parsed("none", 0)
      [] offer.shape = "garbage" -> Parsed("error", 0)

\* "if price and price < cheapest_price" (enhanced adds "and price > 0").
Improves(prog, p, best_price) ==
    /\ p.kind = "number"
    /\ p.amount # 0
    /\ p.amount < best_price
    /\ (prog = "enhanced" => p.amount > 0)

\* One turn of the offer loop: best is (best price, best flight).
OfferStep(prog, best, offer) ==
    LET p == IF prog = "enhanced" THEN ParsePriceEnhanced(offer) ELSE ParsePrice(offer)
    IN IF p.kind = "error" THEN best
       ELSE IF ~Improves(prog, p, best.price) THEN best
       ELSE IF offer.details = "raise" THEN [best EXCEPT !.price = p.amount]
       ELSE [price |-> p.amount, flight |-> LiveQuote(prog, p.amount, offer)]

RECURSIVE OfferLoop(_, _, _)
OfferLoop(prog, best, offers) ==
    IF offers = <<>> THEN best
    ELSE OfferLoop(prog, OfferStep(prog, best, Head(offers)), Tail(offers))

\* The quote a 200 answer yields: None without flights, else the flight the
\* offer loop kept.
ParseOffers(prog, offers) ==
    IF offers = <<>> THEN NoQuote
    ELSE OfferLoop(prog, [price |-> Infinity, flight |-> NoQuote], offers).flight

\* What one live lookup does with the source's answer: call itself again
\* (retry), fall back to the synthetic generator (mock), or return quote.
\* The OTHER arm is the final else and the "except Exception" clause.
Outcome(retry, mock, quote) == [retry |-> retry, mock |-> mock, quote |-> quote]

\* airports.py: get_flight_details_requests.
get_flight_details_requests(resp) ==
    CASE resp.status = StatusOK /\ resp.json ->
             Outcome(FALSE, FALSE, ParseOffers("airports", resp.offers))
      [] resp.status = StatusRateLimited -> Outcome(TRUE, FALSE, NoQuote)
      [] resp.status = StatusForbidden -> Outcome(FALSE, FALSE, NoQuote)
      [] OTHER -> Outcome(FALSE, FALSE, NoQuote)

\* airports_fixed.py: get_detailed_flight_info.
fixed_get_detailed_flight_info(resp) ==
    CASE resp.status = StatusOK /\ resp.json ->
             Outcome(FALSE, FALSE, ParseOffers("fixed", resp.offers))
      [] resp.status = StatusRateLimited -> Outcome(FALSE, TRUE, NoQuote)
      [] resp.status = StatusForbidden -> Outcome(FALSE, TRUE, NoQuote)
      [] OTHER -> Outcome(FALSE, TRUE, NoQuote)

\* airports_enhanced.py: get_detailed_flight_info.
enhanced_get_detailed_flight_info(resp) ==
    CASE resp.status = StatusOK /\ resp.json ->
             Outcome(FALSE, FALSE, ParseOffers("enhanced", resp.offers))
      [] resp.status = StatusForbidden -> Outcome(FALSE, FALSE, NoQuote)
      [] resp.status = StatusRateLimited -> Outcome(TRUE, FALSE, NoQuote)
      [] OTHER -> Outcome(FALSE, FALSE, NoQuote)

----------------------------------------------------------------------------
(* The acquisition runs *)

\* Populate runs one process makes on its graph.
MaxRuns == 2

\* The interpreter's recursion limit, in nested lookups of one pair: the
\* lookups of airports.py and airports_enhanced.py call themselves on every
\* 429, and the call that exceeds the limit raises RecursionError inside the
\* try block of its caller.
RecursionLimit == 4

\* Offers in one answer of the source.
MaxOffers == 1

\* num_connections of a non-hub origin: random.randint(3, 8).
MinConnections == 3
MaxConnections == 8

\* Destinations per origin of populate_flight_network with max_airports set.
EnhancedSample == 5

Min(a, b) == IF a < b THEN a ELSE b

\* random.sample(S, k): every arrangement of k distinct elements of S.
RECURSIVE Arrangements(_, _)
Arrangements(S, k) ==
    IF k = 0 THEN {<<>>}
    ELSE UNION {{<<x>> \o r : r \in Arrangements(S \ {x}, k - 1)} : x \in S}

\* A destination list that keeps the origin.
AllDestinations(list, origin) == list

\* [dest for dest in airports_list if dest != origin]
PossibleDestinations(list, origin) == SelectSeq(list, LAMBDA a : a # origin)

\* The destination lists a run can attempt from one origin.
DestinationChoices(kind, list, origin) ==
    LET possible == PossibleDestinations(list, origin)
    IN CASE kind = "fixed" ->
                UNION {IF Len(possible) > k THEN Arrangements(Range(possible), k)
                       ELSE {possible} : k \in {MinConnections, MaxConnections}}
         [] kind = "mock" ->
                UNION {Arrangements(Range(possible), Min(k, Len(possible))) :
                           k \in {MinConnections, MaxConnections}}
         [] kind \in {"api", "emock"} ->
                Arrangements(Range(possible), Min(EnhancedSample, Len(possible)))

\* The pairs of one origin, in the order of its destination list.
PairsOf(origin, dests) == [i \in 1..Len(dests) |-> <<origin, dests[i]>>]

\* Every order in which a run can attempt its pairs: origins in list order,
\* each with one of its destination lists. (The random draws do not depend
\* on the graph, so the run's order is drawn when it starts.)
RECURSIVE WorkFrom(_, _, _)
WorkFrom(kind, list, i) ==
    IF i > Len(list) THEN {<<>>}
    ELSE {PairsOf(list[i], ds) \o rest :
              ds \in DestinationChoices(kind, list, list[i]),
              rest \in WorkFrom(kind, list, i + 1)}

\* batch_size of the full fetch main starts (choice 1).
FullFetchBatch == 3

\* A batch that stops one destination early.
BatchButLast(destinations, j, batch_size) ==
    SubSeq(destinations, j + 1, Min(j + batch_size - 1, Len(destinations)))

\* batch = destinations[j:j+batch_size]
Batch(destinations, j, batch_size) ==
    SubSeq(destinations, j + 1, Min(j + batch_size, Len(destinations)))

\* "for j in range(0, len(destinations), batch_size): for destination in
\* batch": the destinations in the order the loops reach them, from j on.
RECURSIVE Batched(_, _, _)
Batched(destinations, j, batch_size) ==
    IF j >= Len(destinations) THEN <<>>
    ELSE Batch(destinations, j, batch_size) \o Batched(destinations, j + batch_size, batch_size)

\* populate_graph_with_real_data: the pairs its loops reach, from the i-th
\* origin on.
RECURSIVE RealWork(_, _, _)
RealWork(airports_list, i, batch_size) ==
    IF i > Len(airports_list) THEN <<>>
    ELSE PairsOf(airports_list[i],
                 Batched(PossibleDestinations(airports_list, airports_list[i]), 0, batch_size))
             \o RealWork(airports_list, i + 1, batch_size)

\* The locals of populate_graph_with_real_data when its loops start;
\* requested lists the calls of get_flight_details made so far.
NewFrame(airports_list, batch_size) ==
    [airports_list |-> airports_list,
     batch_size |-> batch_size,
     total_pairs |-> Len(airports_list) * (Len(airports_list) - 1),
     processed |-> 0,
     requested |-> <<>>]

\* "processed += 1" and the call of get_flight_details for the pair.
Request(f, pair) ==
    [f EXCEPT !.processed = @ + 1, !.requested = Append(@, pair)]

\* The populate functions each program has.
RunKinds(prog) ==
    CASE prog = "airports" -> {"real", "mock"}
      [] prog = "fixed" -> {"fixed"}
      [] prog = "enhanced" -> {"api", "emock"}

\* main: the connection test decides which populate function runs first
\* (airports_fixed.py ignores its result).
KindsAfterProbe(prog, api_ok) ==
    CASE prog = "airports" -> IF api_ok THEN {"real", "mock"} ELSE {"mock"}
      [] prog = "fixed" -> {"fixed"}
      [] prog = "enhanced" -> IF api_ok THEN {"api", "emock"} ELSE {"emock"}

\* The offers the live source can put in an answer.
Offer(shape, amount, details) ==
    [shape |-> shape, amount |-> amount, details |-> details,
     airline |-> IF details = "full" THEN "Lufthansa" ELSE "LiveAir"]

\* Offers that carry a price only, and one that carries every detail.
LiveOffers ==
    {Offer("amount", a, "ok") : a \in {0 - FareLow, 0, FareLow}}
        \cup {Offer("amount", FareHigh, "full")}

RECURSIVE SeqsUpTo(_, _)
SeqsUpTo(S, n) ==
    IF n = 0 THEN {<<>>}
    ELSE SeqsUpTo(S, n - 1) \cup
         {Append(s, x) : s \in {t \in SeqsUpTo(S, n - 1) : Len(t) = n - 1}, x \in S}

\* The answers of the live source: a status, and on 200 a payload that
\* response.json() parses into offers (json) or on which it raises.
LiveResponses ==
    {[status |-> s, json |-> FALSE, offers |-> <<>>] :
         s \in {StatusOK, StatusForbidden, StatusRateLimited, OtherStatus,
                TransportFailure, NoAnswer}}
        \cup {[status |-> StatusOK, json |-> TRUE, offers |-> os] :
                  os \in SeqsUpTo(LiveOffers, MaxOffers)}

\* The random draws of the synthetic generators kept by the model: a fare,
\* a departure at 22:45 with a duration of 1h30 (the arrival wraps).
MockFares == {FareHigh}
MockQuotes(prog) == {MockQuote(prog, p, <<22, 45>>, <<1, 30>>, 0) : p \in MockFares}

\* An insertion that does not look at the price.
InsertQuoteUnchecked(G, o, d, q) ==
    IF ~IsNone(q) THEN AddEdge(G, o, d, q) ELSE G

\* An insertion that forgets the pair's edge when there is no quote.
InsertOrForget(G, o, d, q) ==
    IF IsNone(q)
    THEN [G EXCEPT !.edges = [e \in DOMAIN G.edges \ {<<o, d>>} |-> G.edges[e]],
                   !.adj = [G.adj EXCEPT ![o] = SelectSeq(@, LAMBDA x : x # d)]]
    ELSE IF q.price > 0 THEN AddEdge(G, o, d, q) ELSE G

\* "if flight_info and flight_info['price'] > 0: G.add_edge(...)"
InsertQuote(G, o, d, q) ==
    IF ~IsNone(q) /\ q.price > 0 THEN AddEdge(G, o, d, q) ELSE G

\* A populate function is called: main after its connection test (the
\* first run), or a further call on the same graph.
StartRun(kind, api_ok) ==
    /\ run = "idle"
    /\ phase = "ready"
    /\ runs < MaxRuns
    /\ kind \in (IF runs = 0 THEN KindsAfterProbe(program, api_ok) ELSE RunKinds(program))
    /\ run' = kind
    /\ runs' = runs + 1
    /\ work' \in (IF kind = "real" THEN {RealWork(AirportList, 1, FullFetchBatch)}
                   ELSE WorkFrom(kind, AirportList, 1))
    /\ frame' = (IF kind = "real" THEN NewFrame(AirportList, FullFetchBatch) ELSE NoFrame)
    /\ lookups' = 0
    /\ denied' = FALSE
    /\ UNCHANGED <<lookup, rng, today, first, program, nodes, edges, adj, phase, result>>

\* With depth nested lookups of the pair answered 429 already, the lookup
\* in turn is the last the stack has room for: the call it would make
\* raises RecursionError, which "except Exception" turns into None.
StackExhausted(depth) == depth + 1 >= RecursionLimit

\* requests.get(url, headers=..., params=...) without timeout waits for the
\* answer for ever; with timeout=30 it raises and the lookup returns None.
Blocks(prog, resp) == resp.status = NoAnswer /\ prog # "enhanced"

\* The bookkeeping of one live lookup for Head(work) answered by resp.
LiveBookkeeping(resp, retry) ==
    /\ lookups' = (IF retry THEN lookups + 1 ELSE 0)
    /\ denied' = (denied \/ resp.status = StatusForbidden)

\* The lookup of Head(work) never returns.
Block ==
    /\ run' = "blocked"
    /\ UNCHANGED <<lookup, rng, today, first, program, nodes, edges, adj, runs, work, lookups, denied, phase, result>>

\* A run that gives up its remaining pairs when it gets no quote.
SettleOrAbort(q) ==
    IF IsNone(q) THEN work' = <<>> /\ UNCHANGED <<nodes, edges, adj>>
    ELSE LET G == AddEdge(Graph, Head(work)[1], Head(work)[2], q)
         IN nodes' = G.nodes /\ edges' = G.edges /\ adj' = G.adj /\ work' = Tail(work)

\* The run is done with Head(work), having got quote q for it.
Settle(q) ==
    LET o == Head(work)[1]
        d == Head(work)[2]
        G == InsertQuote(Graph, o, d, q)
    IN /\ nodes' = G.nodes
       /\ edges' = G.edges
       /\ adj' = G.adj
       /\ work' = Tail(work)

\* One lookup that calls itself again on 429 (airports.py, enhanced).
RetryingLookup(prog, resp, out) ==
    IF Blocks(prog, resp) THEN Block
    ELSE LET again == out.retry /\ ~StackExhausted(lookups)
         IN /\ LiveBookkeeping(resp, again)
            /\ IF again THEN UNCHANGED <<nodes, edges, adj, work>>
               ELSE Settle(IF out.retry THEN NoQuote ELSE out.quote)
            /\ UNCHANGED <<lookup, rng, today, first, program, run, runs, phase, result>>

\* airports.py populate_graph_with_real_data: one lookup of
\* get_flight_details for the pair in turn.
LookupAirports(resp) ==
    /\ run = "real"
    /\ work # <<>>
    /\ frame' = (IF lookups = 0 THEN Request(frame, Head(work)) ELSE frame)
    /\ RetryingLookup("airports", resp, get_flight_details_requests(resp))

\* airports_fixed.py populate_graph_with_flight_data: get_detailed_flight_info
\* for the pair in turn; mock is the draw of generate_mock_flight_details.
LookupFixed(resp, mock) ==
    /\ run = "fixed"
    /\ work # <<>>
    /\ IF Blocks("fixed", resp) THEN Block
       ELSE LET out == fixed_get_detailed_flight_info(resp)
            IN /\ LiveBookkeeping(resp, out.retry)
               /\ Settle(IF out.mock THEN mock ELSE out.quote)
               /\ UNCHANGED <<lookup, rng, today, first, program, run, runs, phase, result>>
    /\ UNCHANGED frame

\* airports_enhanced.py populate_flight_network(use_api=True): one lookup of
\* get_detailed_flight_info for the pair in turn.
LookupEnhanced(resp) ==
    /\ run = "api"
    /\ work # <<>>
    /\ RetryingLookup("enhanced", resp, enhanced_get_detailed_flight_info(resp))
    /\ UNCHANGED frame

\* airports.py populate_graph_with_mock_data, one flight of
\* generate_mock_flight_data: "if destination in airports and price > 0".
MockAirports(mock) ==
    /\ run = "mock"
    /\ work # <<>>
    /\ Settle(IF Head(work)[2] \in Range(AirportList) THEN mock ELSE NoQuote)
    /\ UNCHANGED <<lookup, frame, rng, today, first, program, run, runs, lookups, denied, phase, result>>

\* airports_enhanced.py populate_flight_network(use_api=False), one pair.
MockEnhanced(mock) ==
    /\ run = "emock"
    /\ work # <<>>
    /\ Settle(mock)
    /\ UNCHANGED <<lookup, frame, rng, today, first, program, run, runs, lookups, denied, phase, result>>

\* The populate function returns.
EndRun ==
    /\ run # "idle"
    /\ work = <<>>
    /\ run' = "idle"
    /\ frame' = NoFrame
    /\ UNCHANGED <<lookup, rng, today, first, program, nodes, edges, adj, runs, work, lookups, denied, phase, result>>

Acquire ==
    \/ \E kind \in {"real", "mock", "fixed", "api", "emock"}, api_ok \in BOOLEAN :
           StartRun(kind, api_ok)
    \/ \E resp \in LiveResponses : LookupAirports(resp)
    \/ \E resp \in LiveResponses, mock \in MockQuotes("fixed") : LookupFixed(resp, mock)
    \/ \E resp \in LiveResponses : LookupEnhanced(resp)
    \/ \E mock \in MockQuotes("airports") : MockAirports(mock)
    \/ \E mock \in MockQuotes("enhanced") : MockEnhanced(mock)
    \/ EndRun

\* A process starts: main has added a node per catalog entry.
Init ==
    /\ program \in Programs
    /\ nodes = Airports
    /\ edges = EmptyGraph(Airports).edges
    /\ adj = EmptyGraph(Airports).adj
    /\ run = "idle"
    /\ runs = 0
    /\ work = <<>>
    /\ lookups = 0
    /\ denied = FALSE
    /\ phase = "ready"
    /\ result = NoResult
    /\ Unseeded
    /\ lookup = NoLookup
    /\ frame = NoFrame

Next == Acquire

Spec == Init /\ [][Next]_vars

----------------------------------------------------------------------------
(* Calls of populate_graph_with_real_data on lists of distinct airports *)

\* The largest batch_size of those calls.
MaxBatch == 3

\* The lists of distinct airports of the catalog.
AirportLists == UNION {Arrangements(S, Cardinality(S)) : S \in SUBSET Airports}

\* populate_graph_with_real_data(G, airports, use_requests=True,
\* batch_size=...) is called on the graph main has built.
StartReal(airports_list, batch_size) ==
    /\ program = "airports"
    /\ run = "idle"
    /\ phase = "ready"
    /\ runs = 0
    /\ run' = "real"
    /\ runs' = 1
    /\ work' = RealWork(airports_list, 1, batch_size)
    /\ frame' = NewFrame(airports_list, batch_size)
    /\ lookups' = 0
    /\ denied' = FALSE
    /\ UNCHANGED <<lookup, rng, today, first, program, nodes, edges, adj, phase, result>>

InitReal == Init /\ program = "airports"

NextReal ==
    \/ \E airports_list \in AirportLists, batch_size \in 1..MaxBatch :
           StartReal(airports_list, batch_size)
    \/ \E resp \in LiveResponses : LookupAirports(resp)
    \/ EndRun

RealSpec == InitReal /\ [][NextReal]_vars

----------------------------------------------------------------------------
(* Direct calls of the live lookups on answers with status 200 *)

\* Offers in one answer given to a direct call.
MaxParseOffers == 2

\* The offers of those answers: where the price is, its amount, and
\* whether reading the further details of the offer raises.
ParseOfferSet ==
    {Offer(shape, a, details) :
         shape \in {"amount", "text", "garbage", "missing"},
         a \in {0 - FareLow, 0, FareLow, FareMid},
         details \in {"ok", "raise"}}

\* The lookup of the program is called for a pair and the source answers
\* 200 with a payload that lists offers.
DirectLookup(offers) ==
    LET resp == [status |-> StatusOK, json |-> TRUE, offers |-> offers]
        out == CASE program = "airports" -> get_flight_details_requests(resp)
                 [] program = "fixed" -> fixed_get_detailed_flight_info(resp)
                 [] program = "enhanced" -> enhanced_get_detailed_flight_info(resp)
    IN /\ run = "idle"
       /\ lookup' = [offers |-> offers, quote |-> out.quote]
       /\ UNCHANGED <<frame, rng, today, first, program, nodes, edges, adj, run, runs, work,
                      lookups, denied, phase, result>>

NextParse == \E offers \in SeqsUpTo(ParseOfferSet, MaxParseOffers) : DirectLookup(offers)

ParseSpec == Init /\ [][NextParse]_vars

----------------------------------------------------------------------------
(* Direct calls of the synthetic generators *)

\* random.randint(6, 23), in airports_enhanced.py random.randint(6, 22).
DepartureHours(prog) == IF prog = "enhanced" THEN 6..22 ELSE 6..23

\* random.randint(1, 15); in airports_enhanced.py random.randint(6, 16)
\* between countries and random.randint(1, 6) within one.
DurationHours(prog) == IF prog = "enhanced" THEN 1..16 ELSE 1..15

\* random.choice([0, 15, 30, 45])
QuarterHours == {0, 15, 30, 45}

\* The generator of the program is called for a pair, once in a process,
\* and makes these draws for the times of the flight.
DirectMock(dep_hour, dep_minute, duration_hours, duration_minutes) ==
    /\ run = "idle"
    /\ lookup = NoLookup
    /\ dep_hour \in DepartureHours(program)
    /\ duration_hours \in DurationHours(program)
    /\ lookup' = [draws |-> <<dep_hour, dep_minute, duration_hours, duration_minutes>>,
                  quote |-> MockQuote(program, FareHigh, <<dep_hour, dep_minute>>,
                                      <<duration_hours, duration_minutes>>, 0)]
    /\ UNCHANGED <<frame, rng, today, first, program, nodes, edges, adj, run, runs, work,
                   lookups, denied, phase, result>>

NextMock ==
    \E dep_hour \in 6..23, duration_hours \in 1..16, dep_minute, duration_minutes \in QuarterHours :
        DirectMock(dep_hour, dep_minute, duration_hours, duration_minutes)

MockSpec == Init /\ [][NextMock]_vars

----------------------------------------------------------------------------
(* Planner specifications: every graph of a bounded family, then queries *)

Pairs(S) == {p \in S \X S : p[1] # p[2]}

\* The attributes of an edge whose price is f.
EdgeOf(prog, f) == MockQuote(prog, f, <<22, 45>>, <<1, 30>>, 0)

\* Every insertion order of the successors the edge set P gives each node.
RECURSIVE AdjOrders(_, _, _)
AdjOrders(P, list, i) ==
    IF i > Len(list) THEN {<<>>}
    ELSE LET n == list[i]
             succ == {p[2] : p \in {q \in P : q[1] = n}}
         IN {(n :> s) @@ rest : s \in Arrangements(succ, Cardinality(succ)),
                                rest \in AdjOrders(P, list, i + 1)}

\* Every graph over Airports whose edges carry a fare of Fares: what the
\* populate runs of a program can leave behind.
TriangleEdges(prog) ==
    UNION {[P -> {EdgeOf(prog, f) : f \in Fares}] : P \in SUBSET Pairs(Airports)}

\* The populate functions have returned; the loop is at its prompt.
Populated ==
    /\ run = "idle"
    /\ runs = 1
    /\ work = <<>>
    /\ lookups = 0
    /\ denied = FALSE
    /\ phase = "ready"
    /\ result = NoResult
    /\ Unseeded
    /\ lookup = NoLookup
    /\ frame = NoFrame

InitPlanner ==
    /\ program \in Programs
    /\ nodes = Airports
    /\ edges \in TriangleEdges(program)
    /\ adj \in AdjOrders(DOMAIN edges, AirportList, 1)
    /\ Populated

NextPlanner == Query \/ NextPrompt

PlannerSpec == InitPlanner /\ [][NextPlanner]_vars

\* Graphs over the six-airport catalog: a chain A -> B -> ... -> F whose
\* legs each are absent or cost FareLow or FareMid, and a direct edge
\* A -> F that is absent or costs a fare of Fares.
ChainPairs == {<<LongAirportList[i], LongAirportList[i + 1]>> : i \in 1..(Len(LongAirportList) - 1)}
DirectPair == <<LongAirportList[1], LongAirportList[Len(LongAirportList)]>>

ChainEdges(prog) ==
    UNION {[P -> {EdgeOf(prog, f) : f \in {FareLow, FareMid}}] : P \in SUBSET ChainPairs}

LongEdges(prog) ==
    ChainEdges(prog) \cup
    {(DirectPair :> EdgeOf(prog, f)) @@ c : f \in Fares, c \in ChainEdges(prog)}

InitLong ==
    /\ program \in Programs
    /\ nodes = LongAirports
    /\ edges \in LongEdges(program)
    /\ adj \in AdjOrders(DOMAIN edges, LongAirportList, 1)
    /\ Populated

LongSpec == InitLong /\ [][NextPlanner]_vars

\* Graphs over a four-airport catalog in which A reaches D by way of B, of
\* C, or of both in either order: each leg is absent or costs FareLow or
\* FareMid, and the direct edge A -> D is absent or costs a fare of Fares.
DiamondAirports == {"A", "B", "C", "D"}
DiamondAirportList == <<"A", "B", "C", "D">>
DiamondLegs ==
    {<<"A", "B">>, <<"A", "C">>, <<"B", "C">>, <<"C", "B">>, <<"B", "D">>, <<"C", "D">>}

DiamondEdges(prog) ==
    LET legs == UNION {[P -> {EdgeOf(prog, f) : f \in {FareLow, FareMid}}] :
                           P \in SUBSET DiamondLegs}
    IN legs \cup {(<<"A", "D">> :> EdgeOf(prog, f)) @@ c : f \in Fares, c \in legs}

InitDiamond ==
    /\ program \in Programs
    /\ nodes = DiamondAirports
    /\ edges \in DiamondEdges(program)
    /\ adj \in AdjOrders(DOMAIN edges, DiamondAirportList, 1)
    /\ Populated

DiamondSpec == InitDiamond /\ [][NextPlanner]_vars

----------------------------------------------------------------------------
(* Synthetic runs under a seeded random module *)

\* The seeds a caller passes to random.seed before a run.
Seeds == {1, 2}

\* Midnights that pass while the processes run.
MaxDay == 1

\* timedelta(days=7): the date of a quote is a week after the day it is made.
DaysAhead == 7

\* The value lists of the generators' draws kept by the model.
FareList == <<FareLow, FareMid, FareHigh>>
DepHours == <<6, 22>>
DurHours == <<1, 15>>
Minutes == <<0, 15, 30, 45>>
StopChoices == <<0, 0, 0, 1, 1, 2>>

\* The generator's next output: a function of the seed and of the number
\* of draws made since seeding, and of nothing else.
Stream(r) == r.seed * 5 + r.n * 3 + r.seed * r.n * r.n

\* random.choice / random.randint over the listed values.
Draw(r, choices) == choices[(Stream(r) % Len(choices)) + 1]

\* The state after k further draws.
Skip(r, k) == [r EXCEPT !.n = @ + k]

\* A run that starts without seeding: the generator goes on from where it is.
KeepState(r, s) == r

\* random.seed(s)
Reseed(r, s) == [seed |-> s, n |-> 0]

RemoveAt(list, i) == SubSeq(list, 1, i - 1) \o SubSeq(list, i + 1, Len(list))

\* random.sample(list, k) from state r: the sample and the state after it.
RECURSIVE SeededSample(_, _, _)
SeededSample(r, list, k) ==
    IF k = 0 THEN [out |-> <<>>, rng |-> r]
    ELSE LET i == (Stream(r) % Len(list)) + 1
             rest == SeededSample(Skip(r, 1), RemoveAt(list, i), k - 1)
         IN [out |-> <<list[i]>> \o rest.out, rng |-> rest.rng]

\* The draws of one synthetic quote, in the order the generator makes them:
\* price, departure hour and minute, duration hours and minutes, then
\* airline and stops (airports.py) or stops, airline and aircraft (enhanced).
QuoteDraws(prog) == IF prog = "enhanced" THEN 8 ELSE 7

SeededQuoteDraws(prog, r) ==
    [price |-> Draw(r, FareList),
     dep |-> <<Draw(Skip(r, 1), DepHours), Draw(Skip(r, 2), Minutes)>>,
     dur |-> <<Draw(Skip(r, 3), DurHours), Draw(Skip(r, 4), Minutes)>>,
     stops |-> Draw(Skip(r, IF prog = "enhanced" THEN 5 ELSE 6), StopChoices)]

\* The quotes of one origin for its sampled destinations.
RECURSIVE QuotesFor(_, _, _, _)
QuotesFor(prog, r, origin, dests) ==
    IF dests = <<>> THEN [out |-> <<>>, rng |-> r]
    ELSE LET rest == QuotesFor(prog, Skip(r, QuoteDraws(prog)), origin, Tail(dests))
         IN [out |-> <<<<origin, Head(dests), SeededQuoteDraws(prog, r)>>>> \o rest.out,
             rng |-> rest.rng]

\* One origin of a synthetic run: generate_mock_flight_data draws
\* num_connections and samples; populate_flight_network samples.
OriginPlan(prog, r, list, origin) ==
    LET possible == PossibleDestinations(list, origin)
        k == IF prog = "enhanced" THEN EnhancedSample
             ELSE MinConnections + (Stream(r) % (MaxConnections - MinConnections + 1))
        r1 == IF prog = "enhanced" THEN r ELSE Skip(r, 1)
        sample == SeededSample(r1, possible, Min(k, Len(possible)))
    IN QuotesFor(prog, sample.rng, origin, sample.out)

\* The whole run from state r: the pairs in the order they are attempted,
\* each with the draws of its quote, and the state the run leaves.
RECURSIVE SeededPlan(_, _, _, _)
SeededPlan(prog, r, list, i) ==
    IF i > Len(list) THEN [out |-> <<>>, rng |-> r]
    ELSE LET here == OriginPlan(prog, r, list, list[i])
             rest == SeededPlan(prog, here.rng, list, i + 1)
         IN [out |-> here.out \o rest.out, rng |-> rest.rng]

\* The caller seeds the random module with s and calls the synthetic
\* populate function of the program on an empty graph. (The draws do not
\* depend on the clock or the graph, so they are taken when the run starts.)
SeededStart(s) ==
    /\ run = "idle"
    /\ phase = "ready"
    /\ runs < MaxRuns
    /\ program \in {"airports", "enhanced"}
    /\ DOMAIN edges = {}
    /\ LET plan == SeededPlan(program, Reseed(rng, s), AirportList, 1)
       IN /\ work' = plan.out
          /\ rng' = plan.rng
    /\ run' = "seeded"
    /\ runs' = runs + 1
    /\ lookups' = 0
    /\ denied' = FALSE
    /\ UNCHANGED <<lookup, frame, today, first, program, nodes, edges, adj, phase, result>>

\* One synthetic quote is made, dated a week from today, and inserted.
SeededQuote ==
    /\ run = "seeded"
    /\ work # <<>>
    /\ LET d == Head(work)[3]
           q == MockQuote(program, d.price, d.dep, d.dur, d.stops)
       IN Settle([q EXCEPT !.date = today + DaysAhead])
    /\ UNCHANGED <<lookup, frame, rng, today, first, program, run, runs, lookups, denied, phase, result>>

\* The calendar day changes.
Midnight ==
    /\ today < MaxDay
    /\ today' = today + 1
    /\ UNCHANGED <<lookup, frame, rng, first, program, nodes, edges, adj, run, runs, work, lookups,
                   denied, phase, result>>

\* The graph a finished run built is kept aside and a process starts again
\* from the empty graph.
Restart ==
    /\ run = "idle"
    /\ runs >= 1
    /\ runs < MaxRuns
    /\ DOMAIN edges # {}
    /\ first' = [edges |-> edges, seed |-> rng.seed, runs |-> runs]
    /\ nodes' = Airports
    /\ edges' = EmptyGraph(Airports).edges
    /\ adj' = EmptyGraph(Airports).adj
    /\ UNCHANGED <<lookup, frame, rng, today, program, run, runs, work, lookups, denied, phase, result>>

InitSeed == Init /\ program # "fixed"

NextSeed ==
    \/ \E s \in Seeds : SeededStart(s)
    \/ SeededQuote
    \/ Midnight
    \/ EndRun
    \/ Restart

SeedSpec == InitSeed /\ [][NextSeed]_vars

----------------------------------------------------------------------------
(* Properties *)

\* The simple paths of G that extend path to t.
RECURSIVE SimplePathsExt(_, _, _)
SimplePathsExt(G, path, t) ==
    LET last == path[Len(path)]
    IN IF last = t THEN {path}
       ELSE UNION {SimplePathsExt(G, Append(path, v), t) :
                       v \in {w \in G.nodes : HasEdge(G, last, w) /\ w \notin Range(path)}}

RoutePaths(G, s, t) == SimplePathsExt(G, <<s>>, t)

\* The paths from s to t with at least one intermediate airport.
MultiHopPaths(G, s, t) == {p \in RoutePaths(G, s, t) : Len(p) > 2}

\* p is a walk of G from s to t.
IsRoute(G, p, s, t) ==
    /\ Len(p) >= 1
    /\ p[1] = s
    /\ p[Len(p)] = t
    /\ \A i \in 1..(Len(p) - 1) : HasEdge(G, p[i], p[i + 1])

\* The sum of the prices of the edges between consecutive nodes of p.
RECURSIVE PathCost(_, _)
PathCost(G, p) ==
    IF Len(p) < 2 THEN 0 ELSE Price(G, p[1], p[2]) + PathCost(G, Tail(p))

\* The least cost among the paths P.
CheapestCost(G, P) ==
    CHOOSE c \in {PathCost(G, p) : p \in P} : \A p \in P : c <= PathCost(G, p)

\* The query answered last was put to the planner of airports_fixed.py
\* (called directly or by its main loop) for two nodes a, b with a direct
\* edge a -> b and at least one multi-hop path.
DirectAndMultiHop ==
    /\ result.program = "fixed"
    /\ result.kind # "invalid"
    /\ result.origin \in nodes
    /\ result.destination \in nodes
    /\ HasEdge(Graph, result.origin, result.destination)
    /\ MultiHopPaths(Graph, result.origin, result.destination) # {}

DirectPrice == Price(Graph, result.origin, result.destination)
MultiHopCost == CheapestCost(Graph, MultiHopPaths(Graph, result.origin, result.destination))

\* C1: with a direct edge a -> b of price P and a cheapest multi-hop path of
\* cost M, if P <= 1.30 * M then find_shortest_path_with_preference returns
\* the two-node path [a, b] with cost P.
C1_DirectWithinTolerance ==
    (DirectAndMultiHop /\ 10 * DirectPrice <= 13 * MultiHopCost) =>
        /\ result.kind = "itinerary"
        /\ result.path = <<result.origin, result.destination>>
        /\ result.cost = DirectPrice

\* A direct edge dearer than the connection, yet within the tolerance, was
\* chosen.
C1_Witness ==
    /\ DirectAndMultiHop
    /\ DirectPrice > MultiHopCost
    /\ 10 * DirectPrice <= 13 * MultiHopCost
    /\ result.layer = "planner"
    /\ result.path = <<result.origin, result.destination>>

\* C2: with a direct edge a -> b of price P and a cheapest multi-hop path of
\* cost M, if P > 1.30 * M then find_shortest_path_with_preference returns a
\* path of more than two nodes from a to b whose cost is M.
C2_MultiHopBeyondTolerance ==
    (DirectAndMultiHop /\ 10 * DirectPrice > 13 * MultiHopCost) =>
        /\ result.kind = "itinerary"
        /\ Len(result.path) > 2
        /\ IsRoute(Graph, result.path, result.origin, result.destination)
        /\ PathCost(Graph, result.path) = MultiHopCost
        /\ result.cost = MultiHopCost

\* The scenario A -> B, B -> C at FareLow and A -> C at FareHigh.
C2_Witness ==
    /\ DirectAndMultiHop
    /\ 10 * DirectPrice > 13 * MultiHopCost
    /\ result.layer = "planner"
    /\ result.path = <<"A", "B", "C">>
    /\ result.cost = 2 * FareLow
    /\ DirectPrice = FareHigh

\* C3: a query of a main loop whose origin and destination are the same
\* node is rejected as invalid: no itinerary is shown for it.
C3_SameAirportRejected ==
    (result.layer = "main" /\ result.origin = result.destination
         /\ result.origin \in nodes) =>
        result.kind = "invalid"

\* C4: for distinct nodes a, b of G with no directed path from a to b, the
\* planner returns (None, inf) and the main loop shows "no route".
C4_NoPathNoRoute ==
    (/\ result.layer # "none"
     /\ result.origin \in nodes
     /\ result.destination \in nodes
     /\ result.origin # result.destination
     /\ RoutePaths(Graph, result.origin, result.destination) = {}) =>
        /\ result.kind = "noroute"
        /\ result.path = NonePath
        /\ result.cost = Infinity

\* A planner answered for a pair that a graph with edges does not connect.
C4_Witness ==
    /\ result.layer = "planner"
    /\ result.origin \in nodes
    /\ result.destination \in nodes
    /\ result.origin # result.destination
    /\ DOMAIN edges # {}
    /\ RoutePaths(Graph, result.origin, result.destination) = {}
    /\ result.kind = "noroute"

\* C5: a planner called with an origin or a destination that is not a node
\* of G returns (None, inf); the call does not end in an exception.
C5_UnknownNodeNoRoute ==
    (result.layer = "planner"
         /\ (result.origin \notin nodes \/ result.destination \notin nodes)) =>
        /\ result.kind = "noroute"
        /\ result.path = NonePath
        /\ result.cost = Infinity

\* C6: with a direct edge a -> b and no multi-hop path from a to b, the
\* planner returns [a, b] with the price of that edge.
C6_OnlyDirect ==
    (/\ result.layer # "none"
     /\ result.origin \in nodes
     /\ result.destination \in nodes
     /\ HasEdge(Graph, result.origin, result.destination)
     /\ MultiHopPaths(Graph, result.origin, result.destination) = {}) =>
        /\ result.kind = "itinerary"
        /\ result.path = <<result.origin, result.destination>>
        /\ result.cost = DirectPrice

C6_Witness ==
    /\ result.layer = "planner"
    /\ result.program = "fixed"
    /\ result.origin \in nodes
    /\ result.destination \in nodes
    /\ HasEdge(Graph, result.origin, result.destination)
    /\ MultiHopPaths(Graph, result.origin, result.destination) = {}
    /\ result.path = <<result.origin, result.destination>>

\* C7: the total cost returned with an itinerary is the sum of the prices of
\* the edges between consecutive nodes of the returned path.
C7_CostIsSumOfLegs ==
    result.kind = "itinerary" =>
        /\ IsRoute(Graph, result.path, result.origin, result.destination)
        /\ result.cost = PathCost(Graph, result.path)

\* An itinerary of five legs was returned.
C7_Witness ==
    /\ result.kind = "itinerary"
    /\ Len(result.path) = 6
    /\ result.cost = PathCost(Graph, result.path)

\* C8: every edge of G has a price above 0, whatever runs populated it.
C8_PricesPositive == \A e \in DOMAIN edges : edges[e].price > 0

\* Two runs are over; G holds a live and a synthetic quote and lacks a pair.
C8_Witness ==
    /\ runs = MaxRuns
    /\ run = "idle"
    /\ \E e \in DOMAIN edges : edges[e].airline = "LiveAir"
    /\ \E e \in DOMAIN edges : edges[e].airline = "Lufthansa"
    /\ \E p \in Pairs(Airports) : p \notin DOMAIN edges

\* A step of a run that sends a lookup to the live source.
LiveLookup ==
    \E resp \in LiveResponses :
        \/ LookupAirports(resp)
        \/ \E mock \in MockQuotes("fixed") : LookupFixed(resp, mock)
        \/ LookupEnhanced(resp)

\* C9: once the live source has answered 403 in a run, the run sends no
\* further lookup to the live source.
C9_NoLiveLookupAfterDenied == [][denied => ~LiveLookup]_vars

\* C10: at most two live lookups are issued for any one pair, however often
\* the source answers 429.
C10_AtMostTwoLookups == lookups <= 2

\* C11: an acquisition run over a finite working set terminates whatever the
\* live source does: as long as the run has not returned it can take its
\* next step (and each step shortens the work or deepens a bounded stack).
C11_RunCanProceed == run # "idle" => ENABLED Next

\* A later run has finished and was seeded like the run whose graph was kept.
SameSeedAgain ==
    /\ run = "idle"
    /\ "none" \notin DOMAIN first
    /\ runs > first.runs
    /\ rng.seed = first.seed

\* Every quote of both runs was made on one calendar day.
SameDayQuotes ==
    \E day \in 0..(MaxDay + 1) :
        /\ \A e \in DOMAIN edges : edges[e].date = day + DaysAhead
        /\ \A e \in DOMAIN first.edges : first.edges[e].date = day + DaysAhead

\* C12 as stated: two synthetic runs with the same seed over the same
\* working set, each from an empty graph, build the same edges with the
\* same records.
C12_SameSeedSameGraph == SameSeedAgain => edges = first.edges

\* C12 amended: the two runs build the same edges with the same records
\* when, besides, all their quotes are made on the same calendar day.
C12_SameSeedSameDaySameGraph ==
    (SameSeedAgain /\ SameDayQuotes) => edges = first.edges

\* Two runs seeded alike on one day have built the same six edges.
C12_Witness ==
    /\ SameSeedAgain
    /\ SameDayQuotes
    /\ Cardinality(DOMAIN edges) = 6
    /\ edges = first.edges

\* The quotes with a price above 0 that the providers of the program in
\* hand can return.
PositiveQuotes ==
    {q \in MockQuotes(program) \cup
              {LiveQuote(program, o.amount, o) : o \in LiveOffers} : q.price > 0}

\* Each successor of a node is listed once: one edge per ordered pair.
OneEdgePerPair ==
    /\ DOMAIN edges \subseteq nodes \X nodes
    /\ \A n \in nodes : \A i, j \in DOMAIN adj[n] : adj[n][i] = adj[n][j] => i = j
    /\ \A n \in nodes : Range(adj[n]) = {d \in nodes : <<n, d>> \in DOMAIN edges}

\* C13: G holds at most one edge per ordered pair, and a step that settles
\* a pair with a quote whose price is above 0 leaves that quote, field for
\* field, as the pair's record, whatever record the pair had before.
C13_LastWriteWins ==
    /\ []OneEdgePerPair
    /\ [][\A q \in PositiveQuotes :
              (work # <<>> /\ Settle(q)) => edges'[Head(work)] = q]_vars

\* The second run of airports_enhanced.py asks the live source; an edge
\* still has the synthetic record the first run gave to every pair, another
\* has the live record that replaced it.
C13_Witness ==
    /\ program = "enhanced"
    /\ runs = 2
    /\ run = "api"
    /\ \E e \in DOMAIN edges :
           edges[e] = LiveQuote("enhanced", FareLow, Offer("amount", FareLow, "ok"))
    /\ \E e \in DOMAIN edges : edges[e] \in MockQuotes("enhanced")

\* C14: G never has a self-loop: every pair a run is to hand to its provider
\* and every edge of G has an origin other than its destination, and both
\* endpoints of every edge are nodes of G.
C14_NoSelfLoop ==
    /\ \A i \in DOMAIN work : work[i][1] # work[i][2]
    /\ \A e \in DOMAIN edges : e[1] # e[2] /\ e[1] \in nodes /\ e[2] \in nodes

\* A second run is under way on a graph that has edges, with pairs still
\* to hand to the provider.
C14_Witness ==
    /\ runs = 2
    /\ work # <<>>
    /\ Cardinality(DOMAIN edges) >= 3

\* The answers that are a failure of the lookup: a request that raises, a
\* status other than 200, a payload that does not parse.
Failures == {resp \in LiveResponses : resp.status # NoAnswer /\ ~resp.json}

\* The step is a live lookup of the pair in turn answered by resp.
LookupAnswered(resp) ==
    \/ LookupAirports(resp)
    \/ \E mock \in MockQuotes("fixed") : LookupFixed(resp, mock)
    \/ LookupEnhanced(resp)

\* The step leaves the run under way with every later pair left to attempt,
\* or with the same pair to look up again one call deeper.
RunGoesOn ==
    /\ run' = run
    /\ \/ work' = Tail(work)
       \/ work' = work /\ lookups' = lookups + 1

\* C15: a failed lookup does not abort the run. After it the run is still
\* under way and has either every later pair left to attempt or the same
\* pair to look up again one call deeper (stated from the step: one after
\* which the run does not go on is not a failed lookup); no step of a run
\* drops a pair, and the run returns only when no pair is left.
C15_FailureDoesNotAbort ==
    /\ [][(run \in {"real", "fixed", "api"} /\ work # <<>> /\ ~RunGoesOn) =>
              \A resp \in Failures : ~LookupAnswered(resp)]_vars
    /\ [][run \notin {"idle", "blocked"} =>
              \/ run' = run /\ work # <<>> /\ work' \in {work, Tail(work)}
              \/ run' = "blocked" /\ work' = work
              \/ run' = "idle" /\ work = <<>>]_vars
    /\ [](run \notin {"idle", "blocked"} => ENABLED Next)

\* A run of airports.py over the live source has returned without an edge:
\* every one of its pairs failed and every one was attempted.
C15_Witness ==
    /\ program = "airports"
    /\ runs = 1
    /\ run = "idle"
    /\ DOMAIN edges = {}

\* The provider of program prog, asked for the pair in turn and answered by
\* resp, returns None: an answer without a quote, or a 429 on the last call
\* the stack has room for.
YieldsNone(prog, resp) ==
    LET out == CASE prog = "airports" -> get_flight_details_requests(resp)
                 [] prog = "fixed" -> fixed_get_detailed_flight_info(resp)
                 [] prog = "enhanced" -> enhanced_get_detailed_flight_info(resp)
    IN /\ ~Blocks(prog, resp)
       /\ IF out.retry THEN StackExhausted(lookups)
          ELSE ~out.mock /\ IsNone(out.quote)

\* C16: an attempt for which the provider yields no quote leaves G as it
\* was: no edge is inserted, the edge the pair has is kept, and no node,
\* edge or successor list changes. (Stated from the changed graph: a step
\* that changes G is not such an attempt.)
C16_NotFoundKeepsGraph ==
    [][(run \in {"real", "fixed", "api"} /\ work # <<>>
            /\ <<nodes, edges, adj>>' # <<nodes, edges, adj>>) =>
          \A resp \in LiveResponses :
              YieldsNone(program, resp) => ~LookupAnswered(resp)]_vars

\* airports.py ran over synthetic quotes, then over the live source, which
\* answered 403 at least once and gave no usable quote: all six synthetic
\* edges are still there.
C16_Witness ==
    /\ program = "airports"
    /\ runs = 2
    /\ run = "real"
    /\ work = <<>>
    /\ denied
    /\ Cardinality(DOMAIN edges) = 6
    /\ \A e \in DOMAIN edges : edges[e] \in MockQuotes("airports")

\* The answers with a non-success status other than 429 and 403.
TransientFailures == {resp \in LiveResponses : resp.status = OtherStatus}

\* C17: a lookup answered with a non-success status other than 429 and 403
\* ends, after its bounded retries, like one that found nothing: the
\* attempt inserts no edge. (Stated from the step: one that changes the
\* edges of G is not a lookup answered that way.)
C17_TransientNoEdge ==
    [][(run \in {"real", "fixed", "api"} /\ work # <<>> /\ edges' # edges) =>
          \A resp \in TransientFailures : ~LookupAnswered(resp)]_vars

\* The prices above 0 that the program's own extraction reads out of the
\* offers of the answer.
PositivePrices(prog, offers) ==
    {p.amount : p \in {IF prog = "enhanced" THEN ParsePriceEnhanced(offers[i])
                                           ELSE ParsePrice(offers[i]) : i \in DOMAIN offers} \cap
                      {p \in [kind : {"number"}, amount : {0 - FareLow, 0, FareLow, FareMid}] :
                           p.amount > 0}}

\* The least element of a non-empty set of numbers.
Least(S) == CHOOSE x \in S : \A y \in S : x <= y

\* C18: when the answer lists at least one offer with a parseable price
\* above 0, the lookup returns a quote, and its price is the least of those
\* prices: the other offers are skipped.
C18_CheapestPositivePrice ==
    ("none" \notin DOMAIN lookup /\ PositivePrices(program, lookup.offers) # {}) =>
        /\ ~IsNone(lookup.quote)
        /\ lookup.quote.price = Least(PositivePrices(program, lookup.offers))

\* The records a live lookup of the program can return.
LiveRecords(prog) ==
    {ParseOffers(prog, resp.offers) :
         resp \in {r \in LiveResponses : r.status = StatusOK /\ r.json}} \ {NoQuote}

\* C19: every quote the fallback path of airports_fixed.py generates is
\* told apart from a live one by its record: an edge the fallback inserts
\* has a record no live lookup returns.
C19_SyntheticTold ==
    [][(run = "fixed" /\ work # <<>> /\ edges' # edges) =>
          \A resp \in LiveResponses, mock \in MockQuotes("fixed") :
              (fixed_get_detailed_flight_info(resp).mock /\ LookupFixed(resp, mock)) =>
                  edges'[Head(work)] \notin LiveRecords("fixed")]_vars

\* C20: the stop count shown with a route is len(path) - 2 clamped to 0 or
\* more: it is never negative, and it is 0 exactly for a path of two nodes.
C20_StopsClamped ==
    (result.layer = "main" /\ result.kind = "itinerary") =>
        /\ result.stops = (IF Len(result.path) > 2 THEN Len(result.path) - 2 ELSE 0)
        /\ result.stops >= 0
        /\ result.stops = 0 <=> Len(result.path) = 2

\* C21: for every departure and duration a generator can draw, the arrival
\* time it returns is a time of day (hour 0..23, minute 0..59) and is the
\* departure plus the duration, modulo 24 hours.
C21_ArrivalIsDeparturePlusDuration ==
    "draws" \in DOMAIN lookup =>
        LET d == lookup.draws
            a == lookup.quote.arrival_time
        IN /\ a[1] \in 0..23
           /\ a[2] \in 0..59
           /\ a[1] * 60 + a[2] = (d[1] * 60 + d[2] + d[3] * 60 + d[4]) % (24 * 60)

\* A departure at 23:45 with a duration of 15h 30m: the minutes carry an
\* hour and the arrival, 15:15, is on the next day.
C21_Witness ==
    /\ "draws" \in DOMAIN lookup
    /\ lookup.draws = <<23, 45, 15, 30>>
    /\ lookup.quote.arrival_time = <<15, 15>>

\* No node occurs twice in p.
NoRepeat(p) == \A i, j \in DOMAIN p : p[i] = p[j] => i = j

\* C22: every itinerary returned is a node sequence [n0, ..., nk] with
\* k >= 1 from the origin to the destination of the query, without a
\* repeated node, and with an edge of G between each two consecutive nodes.
C22_ItineraryIsPath ==
    result.kind = "itinerary" =>
        /\ Len(result.path) >= 2
        /\ IsRoute(Graph, result.path, result.origin, result.destination)
        /\ NoRepeat(result.path)

\* C23: a planner query is a pure read. Whatever the graph and the query,
\* and whether the answer is an itinerary, no route or an error, the step
\* that answers it leaves the nodes, the edges and their records, and the
\* successor lists of G as they were.
C23_QueryReadsOnly ==
    [][(phase = "ready" /\ phase' = "answered") => UNCHANGED <<nodes, edges, adj>>]_vars

\* A planner called with a code that is no node of G has raised, and G has
\* its three nodes and at least three edges.
C23_Witness ==
    /\ phase = "answered"
    /\ result.kind = "raised"
    /\ nodes = Airports
    /\ Cardinality(DOMAIN edges) >= 3

\* C24: a reader of G never finds a half-written edge, at whatever point of
\* an acquisition run it looks: in every state, between any two steps of a
\* run, each edge carries the whole record of one single quote.
C24_EdgesAreWholeQuotes ==
    \A e \in DOMAIN edges : edges[e] \in PositiveQuotes

\* A second run is under way and has pairs left; of the edges a reader
\* finds now, one has the record of a live quote that replaced a synthetic
\* one and another still has a synthetic record.
C24_Witness ==
    /\ runs = 2
    /\ run \in {"real", "api"}
    /\ work # <<>>
    /\ \E e \in DOMAIN edges : edges[e].airline = "LiveAir"
    /\ \E e \in DOMAIN edges : edges[e] \in MockQuotes(program)

\* The query answered last was put to a planner for two nodes of G without
\* a direct edge between them and with a path from the one to the other.
PathButNoDirect ==
    /\ result.layer # "none"
    /\ result.kind # "invalid"
    /\ result.origin \in nodes
    /\ result.destination \in nodes
    /\ ~HasEdge(Graph, result.origin, result.destination)
    /\ RoutePaths(Graph, result.origin, result.destination) # {}

\* The least total price of a path from the origin to the destination.
MinCost == CheapestCost(Graph, RoutePaths(Graph, result.origin, result.destination))

\* C25: without a direct edge origin -> destination and with a path, the
\* planner returns a path from origin to destination whose total price is
\* the least among all paths from origin to destination.
C25_CheapestWithoutDirect ==
    PathButNoDirect =>
        /\ result.kind = "itinerary"
        /\ IsRoute(Graph, result.path, result.origin, result.destination)
        /\ PathCost(Graph, result.path) = MinCost
        /\ result.cost = MinCost

\* Three legs at FareLow beat both two-leg connections, which each have a
\* leg at FareMid.
C25_Witness ==
    /\ PathButNoDirect
    /\ result.origin = "A"
    /\ result.destination = "D"
    /\ Len(result.path) = 4
    /\ result.cost = 3 * FareLow
    /\ Cardinality({p \in RoutePaths(Graph, "A", "D") :
                        Len(p) = 3 /\ PathCost(Graph, p) = FareLow + FareMid}) = 2

\* The tolerance test with factor 1.00 in the place of 1.30.
ZeroTolerance(shortest_path, direct_cost, shortest_cost) ==
    Len(shortest_path) > 2 /\ direct_cost <= shortest_cost

\* What the two planners return for the query answered last.
PlainCheapest == find_cheapest_path(Graph, result.origin, result.destination)
WithZeroTolerance ==
    LET c == PreferenceCase(Graph, result.origin, result.destination)
    IN IF c.decided THEN c.result
       ELSE IF ZeroTolerance(c.shortest_path, c.direct_cost, c.shortest_cost)
            THEN Returned(c.direct_path, c.direct_cost)
            ELSE Returned(c.shortest_path, c.shortest_cost)

\* C26: the plain-cheapest planner is the tolerance planner with tolerance
\* 0%. For every query with distinct endpoints find_cheapest_path and the
\* direct-preference rule with factor 1.00 return the same total cost, and
\* the one returns no route (or raises) exactly when the other does.
C26_CheapestIsZeroTolerance ==
    (result.layer = "planner" /\ result.origin # result.destination) =>
        /\ PlainCheapest.exc = WithZeroTolerance.exc
        /\ PlainCheapest.cost = WithZeroTolerance.cost
        /\ (PlainCheapest.path = NonePath) <=> (WithZeroTolerance.path = NonePath)
        /\ program = "airports" =>
               (result.cost = PlainCheapest.cost /\ result.path = PlainCheapest.path)

\* find_cheapest_path has returned the connection at two legs of FareLow
\* where the direct flight costs FareMid: the rule with factor 1.30 takes
\* the direct flight, the rule with factor 1.00 agrees with the cheapest.
C26_Witness ==
    /\ result.layer = "planner"
    /\ program = "airports"
    /\ result.origin \in nodes
    /\ result.destination \in nodes
    /\ HasEdge(Graph, result.origin, result.destination)
    /\ DirectPrice = FareMid
    /\ result.cost = 2 * FareLow
    /\ WithZeroTolerance.cost = 2 * FareLow
    /\ find_shortest_path_with_preference(Graph, result.origin, result.destination).cost = FareMid

\* The query answered last was put to find_optimal_route (called directly
\* or by the main loop of airports_enhanced.py) for two nodes of G.
OptimalRouteAsked ==
    /\ result.program = "enhanced"
    /\ result.kind # "invalid"
    /\ result.origin \in nodes
    /\ result.destination \in nodes

\* C27: find_optimal_route puts the direct flight first. With a direct edge
\* origin -> destination it returns [origin, destination] at that edge's
\* price, whatever a connection costs; without one, and with a path, it
\* returns a cheapest path.
C27_DirectFirst ==
    OptimalRouteAsked =>
        IF HasEdge(Graph, result.origin, result.destination)
        THEN /\ result.kind = "itinerary"
             /\ result.path = <<result.origin, result.destination>>
             /\ result.cost = DirectPrice
        ELSE IF RoutePaths(Graph, result.origin, result.destination) = {}
             THEN result.kind = "noroute"
             ELSE /\ result.kind = "itinerary"
                  /\ IsRoute(Graph, result.path, result.origin, result.destination)
                  /\ result.cost = MinCost

\* The direct flight at FareHigh was returned although a connection costs
\* two legs of FareLow.
C27_Witness ==
    /\ OptimalRouteAsked
    /\ HasEdge(Graph, result.origin, result.destination)
    /\ DirectPrice = FareHigh
    /\ MultiHopPaths(Graph, result.origin, result.destination) # {}
    /\ MinCost = 2 * FareLow
    /\ result.path = <<result.origin, result.destination>>
    /\ result.cost = FareHigh

\* The query answered last was put to find_shortest_path_with_preference
\* for two distinct nodes of G with a path from the one to the other.
PreferenceAskedWithPath ==
    /\ result.program = "fixed"
    /\ result.kind # "invalid"
    /\ result.origin \in nodes
    /\ result.destination \in nodes
    /\ result.origin # result.destination
    /\ RoutePaths(Graph, result.origin, result.destination) # {}

\* C28: with Min the least total price of a path from origin to
\* destination, the cost C that find_shortest_path_with_preference returns
\* satisfies Min <= C <= 1.30 * Min, and C > Min only when the returned path
\* is the direct edge.
C28_WithinToleranceOfCheapest ==
    PreferenceAskedWithPath =>
        /\ result.kind = "itinerary"
        /\ MinCost <= result.cost
        /\ 10 * result.cost <= 13 * MinCost
        /\ result.cost > MinCost => result.path = <<result.origin, result.destination>>

\* The direct flight A -> D at FareHigh was returned where the cheapest of
\* several connections costs FareLow + FareMid.
C28_Witness ==
    /\ PreferenceAskedWithPath
    /\ result.origin = "A"
    /\ result.destination = "D"
    /\ Cardinality(MultiHopPaths(Graph, "A", "D")) >= 2
    /\ MinCost = FareLow + FareMid
    /\ result.cost = FareHigh
    /\ result.path = <<"A", "D">>

\* The tracked best price and best quote of the offer loop after it has
\* processed the first n offers of the answer.
TrackedBest(prog, offers, n) ==
    OfferLoop(prog, [price |-> Infinity, flight |-> NoQuote], SubSeq(offers, 1, n))

\* C29: in the offer loop of the live lookup, after each offer is processed,
\* a best quote is recorded if and only if the best price is finite, and the
\* recorded quote's price equals the best price, also when extracting the
\* details of an offer raises and the offer is skipped.
C29_BestPriceIsBestQuote ==
    "offers" \in DOMAIN lookup =>
        \A n \in 1..Len(lookup.offers) :
            LET best == TrackedBest(program, lookup.offers, n)
            IN /\ ~IsNone(best.flight) <=> best.price # Infinity
               /\ ~IsNone(best.flight) => best.flight.price = best.price

\* The ordered pairs of distinct airports of a list, by origin in list
\* order, and for one origin by destination in list order.
RECURSIVE OrderedPairsFrom(_, _, _)
OrderedPairsFrom(list, i, j) ==
    IF i > Len(list) THEN <<>>
    ELSE IF j > Len(list) THEN OrderedPairsFrom(list, i + 1, 1)
    ELSE IF i = j THEN OrderedPairsFrom(list, i, j + 1)
    ELSE <<(<<list[i], list[j]>>)>> \o OrderedPairsFrom(list, i, j + 1)

\* The loops of populate_graph_with_real_data have come to their end.
RealLoopsDone == run = "real" /\ work = <<>>

\* C30: populate_graph_with_real_data over n distinct airports and any
\* batch_size >= 1 requests a quote for every ordered pair of distinct
\* airports exactly once, in origin order: the requests made so far are
\* the first of those pairs with none repeated, and at the end
\* processed = total_pairs = n * (n - 1) and the graph has at most n * (n - 1)
\* edges.
C30_EveryPairOnce ==
    frame # NoFrame =>
        LET n == Len(frame.airports_list)
            pairs == OrderedPairsFrom(frame.airports_list, 1, 1)
        IN /\ frame.total_pairs = n * (n - 1)
           /\ Len(pairs) = n * (n - 1)
           /\ frame.processed = Len(frame.requested)
           /\ frame.processed <= Len(pairs)
           /\ frame.requested = SubSeq(pairs, 1, frame.processed)
           /\ NoRepeat(frame.requested)
           /\ RealLoopsDone =>
                  /\ frame.processed = frame.total_pairs
                  /\ frame.requested = pairs
                  /\ Cardinality(DOMAIN edges) <= n * (n - 1)

\* A call on three airports with batch_size 1 (two batches per origin) is
\* at its end with six requests made, some of which gave an edge.
C30_Witness ==
    /\ RealLoopsDone
    /\ frame.airports_list = <<"B", "A", "C">>
    /\ frame.batch_size = 1
    /\ frame.processed = 6
    /\ frame.requested[1] = <<"B", "A">>
    /\ frame.requested[6] = <<"C", "A">>
    /\ Cardinality(DOMAIN edges) = 4

====
